---- MODULE Spec2Model ----
(***************************************************************************)
(* Model of sncosmo/utils/extinction.py: extinction_ratio_ccm and the      *)
(* module-level coefficient tables.                                        *)
(*                                                                         *)
(* Numbers.  The code computes with floats; the model computes with exact  *)
(* rationals (arbitrary-precision numerator and denominator), so that the  *)
(* decimal constants of the source are kept digit for digit.  x ** 1.61 is *)
(* not rational: a value is a formal sum  q + k1*P(x1) + k2*P(x2) + ...    *)
(* where P(x) stands for x ** 1.61, kept as a function from bases to       *)
(* rational coefficients with the base One standing for the rational part. *)
(***************************************************************************)
EXTENDS Integers, Sequences, FiniteSets, TLC

----------------------------------------------------------------------------
(* Arbitrary-precision naturals: little-endian sequences of limbs in       *)
(* 0..Base-1 without most-significant zero limbs; <<>> is zero.            *)

Base == 10000

RECURSIVE NatOf(_)
NatOf(k) == IF k = 0 THEN <<>> ELSE <<k % Base>> \o NatOf(k \div Base)

RECURSIVE Strip(_)
Strip(x) ==
    IF x = <<>> THEN <<>>
    ELSE IF x[Len(x)] = 0 THEN Strip(SubSeq(x, 1, Len(x) - 1))
    ELSE x

RECURSIVE AddC(_, _, _, _)
AddC(x, y, i, c) ==
    IF i > Len(x) /\ i > Len(y) THEN (IF c = 0 THEN <<>> ELSE <<c>>)
    ELSE LET s == (IF i <= Len(x) THEN x[i] ELSE 0)
                  + (IF i <= Len(y) THEN y[i] ELSE 0) + c
         IN  <<s % Base>> \o AddC(x, y, i + 1, s \div Base)

AddN(x, y) == AddC(x, y, 1, 0)

RECURSIVE SubC(_, _, _, _)
SubC(x, y, i, c) ==
    IF i > Len(x) THEN <<>>
    ELSE LET s == x[i] - (IF i <= Len(y) THEN y[i] ELSE 0) - c
         IN  IF s < 0 THEN <<s + Base>> \o SubC(x, y, i + 1, 1)
             ELSE <<s>> \o SubC(x, y, i + 1, 0)

\* x - y for x >= y
SubN(x, y) == Strip(SubC(x, y, 1, 0))

RECURSIVE MulSmall(_, _, _, _)
MulSmall(x, d, i, c) ==
    IF i > Len(x) THEN (IF c = 0 THEN <<>> ELSE <<c>>)
    ELSE LET s == x[i] * d + c
         IN  <<s % Base>> \o MulSmall(x, d, i + 1, s \div Base)

RECURSIVE MulC(_, _, _)
MulC(x, y, j) ==
    IF j > Len(y) THEN <<>>
    ELSE LET rest == MulC(x, y, j + 1)
             sh   == IF rest = <<>> THEN <<>> ELSE <<0>> \o rest
         IN  IF y[j] = 0 THEN sh ELSE AddN(MulSmall(x, y[j], 1, 0), sh)

MulN(x, y) ==
    IF x = <<>> \/ y = <<>> THEN <<>>
    ELSE IF Len(x) >= Len(y) THEN MulC(x, y, 1) ELSE MulC(y, x, 1)

RECURSIVE CmpC(_, _, _)
CmpC(x, y, i) ==
    IF i = 0 THEN 0
    ELSE IF x[i] < y[i] THEN -1
    ELSE IF x[i] > y[i] THEN 1
    ELSE CmpC(x, y, i - 1)

\* -1, 0, 1 as x < y, x = y, x > y
CmpN(x, y) ==
    IF Len(x) < Len(y) THEN -1
    ELSE IF Len(x) > Len(y) THEN 1
    ELSE CmpC(x, y, Len(x))

RECURSIVE DivC(_, _, _, _)
DivC(x, k, i, r) ==
    IF i = 0 THEN <<>>
    ELSE LET t == r * Base + x[i]
         IN  DivC(x, k, i - 1, t % k) \o <<t \div k>>

\* x \div k for a small k > 0
DivSmall(x, k) == Strip(DivC(x, k, Len(x), 0))

\* x is a multiple of k, for k a divisor of Base
Divides(k, x) == x = <<>> \/ x[1] % k = 0

RECURSIVE MulPow10(_, _)
MulPow10(x, k) ==
    IF x = <<>> \/ k = 0 THEN x
    ELSE IF k >= 4 THEN <<0>> \o MulPow10(x, k - 4)
    ELSE MulPow10(MulSmall(x, 10, 1, 0), k - 1)

----------------------------------------------------------------------------
(* Rationals [s, n, d, e] stand for s * n / (d * 10^e): sign s in          *)
(* {-1, 0, 1}, naturals n and d > 0 with d coprime to 10, and e >= 0.      *)
(* A decimal literal of the source is D(digits, places).  Fractions are    *)
(* not reduced further; REq and RLt compare values.                        *)

D(n, e) ==
    [s |-> IF n = 0 THEN 0 ELSE IF n < 0 THEN -1 ELSE 1,
     n |-> NatOf(IF n < 0 THEN -n ELSE n), d |-> <<1>>, e |-> e]

Zero == D(0, 0)
One == D(1, 0)

RNeg(u) == [u EXCEPT !.s = -u.s]

RMul(u, v) ==
    IF u.s = 0 \/ v.s = 0 THEN Zero
    ELSE [s |-> u.s * v.s, n |-> MulN(u.n, v.n),
          d |-> IF u.d = <<1>> THEN v.d
                ELSE IF v.d = <<1>> THEN u.d ELSE MulN(u.d, v.d),
          e |-> u.e + v.e]

\* s1 * un / (d * 10^e) + s2 * vn / (d * 10^e)
RAddSigned(s1, un, s2, vn, d, e) ==
    IF s1 = s2 THEN [s |-> s1, n |-> AddN(un, vn), d |-> d, e |-> e]
    ELSE IF CmpN(un, vn) = 0 THEN Zero
    ELSE IF CmpN(un, vn) > 0 THEN [s |-> s1, n |-> SubN(un, vn), d |-> d, e |-> e]
    ELSE [s |-> s2, n |-> SubN(vn, un), d |-> d, e |-> e]

\* u + v with the numerators ua, va brought to the power of ten e
RAddAligned(u, v, ua, va, e) ==
    IF u.d = v.d THEN RAddSigned(u.s, ua, v.s, va, u.d, e)
    ELSE IF v.d = <<1>> THEN RAddSigned(u.s, ua, v.s, MulN(va, u.d), u.d, e)
    ELSE IF u.d = <<1>> THEN RAddSigned(u.s, MulN(ua, v.d), v.s, va, v.d, e)
    ELSE RAddSigned(u.s, MulN(ua, v.d), v.s, MulN(va, u.d), MulN(u.d, v.d), e)

RAdd(u, v) ==
    IF u.s = 0 THEN v
    ELSE IF v.s = 0 THEN u
    ELSE IF u.e >= v.e THEN RAddAligned(u, v, u.n, MulPow10(v.n, u.e - v.e), u.e)
    ELSE RAddAligned(u, v, MulPow10(u.n, v.e - u.e), v.n, v.e)

RSub(u, v) == RAdd(u, RNeg(v))

\* moves the factors 2 and 5 of the denominator into the power of ten and
\* cancels the powers of ten the numerator and 10^e share
RECURSIVE Norm(_)
Norm(u) ==
    IF Divides(2, u.d) THEN
        Norm([u EXCEPT !.n = MulSmall(u.n, 5, 1, 0), !.d = DivSmall(u.d, 2), !.e = u.e + 1])
    ELSE IF Divides(5, u.d) THEN
        Norm([u EXCEPT !.n = MulSmall(u.n, 2, 1, 0), !.d = DivSmall(u.d, 5), !.e = u.e + 1])
    ELSE IF u.e > 0 /\ Divides(10, u.n) THEN
        Norm([u EXCEPT !.n = DivSmall(u.n, 10), !.e = u.e - 1])
    ELSE u

\* u / v for v # 0
RDiv(u, v) ==
    IF u.s = 0 THEN Zero
    ELSE IF v.e > u.e
    THEN Norm([s |-> u.s * v.s, n |-> MulPow10(MulN(u.n, v.d), v.e - u.e),
               d |-> MulN(u.d, v.n), e |-> 0])
    ELSE Norm([s |-> u.s * v.s, n |-> MulN(u.n, v.d),
               d |-> MulN(u.d, v.n), e |-> u.e - v.e])

RLt(u, v) == RSub(u, v).s < 0
RGt(u, v) == RLt(v, u)
RGe(u, v) == ~RLt(u, v)
REq(u, v) == u = v \/ RSub(u, v).s = 0

----------------------------------------------------------------------------
(* Values: formal sums over bases.  v[One] is the rational part and v[x]   *)
(* the coefficient of x ** 1.61.                                           *)

Num(q) == One :> q

Coef(v, base) == IF base \in DOMAIN v THEN v[base] ELSE Zero

VAdd(u, v) == [base \in DOMAIN u \cup DOMAIN v |-> RAdd(Coef(u, base), Coef(v, base))]

\* v * q for a rational q
VScale(v, q) == [base \in DOMAIN v |-> RMul(v[base], q)]

VEq(u, v) == \A base \in DOMAIN u \cup DOMAIN v : REq(Coef(u, base), Coef(v, base))

\* x ** 1.61; 1 ** 1.61 is 1
Pow161(x) == IF REq(x, One) THEN Num(One) ELSE x :> One

----------------------------------------------------------------------------
(* The module-level tables, src lines 8-14, and the far-UV tables of lines *)
(* 157-158, index 1 = the source's index 0.  A table holds its literals as *)
(* <<digits, places>>: 0.17699 is <<17699, 5>>.                            *)

\* the float a literal of a table denotes
Lit(c) == D(c[1], c[2])

Init_c1_ccm ==
    << <<1, 0>>, <<17699, 5>>, <<-50447, 5>>, <<-2427, 5>>,
       <<72085, 5>>, <<1979, 5>>, <<-77530, 5>>, <<32999, 5>> >>
Init_c2_ccm ==
    << <<0, 0>>, <<141338, 5>>, <<228305, 5>>, <<107233, 5>>,
       <<-538434, 5>>, <<-62251, 5>>, <<530260, 5>>, <<-209002, 5>> >>
Init_c1_odonnell ==
    << <<1, 0>>, <<104, 3>>, <<-609, 3>>, <<701, 3>>, <<1137, 3>>,
       <<-1718, 3>>, <<-827, 3>>, <<1647, 3>>, <<-505, 3>> >>
Init_c2_odonnell ==
    << <<0, 0>>, <<1952, 3>>, <<2908, 3>>, <<-3989, 3>>, <<-7985, 3>>,
       <<11102, 3>>, <<5491, 3>>, <<-10805, 3>>, <<3347, 3>> >>

fuv_c1 == << <<-1073, 3>>, <<-628, 3>>, <<137, 3>>, <<-70, 3>> >>
fuv_c2 == << <<13670, 3>>, <<4257, 3>>, <<-420, 3>>, <<374, 3>> >>

----------------------------------------------------------------------------
(* numpy.  An array is [shape, data]: its shape and its flat row-major     *)
(* buffer; a scalar has shape <<>>.  A buffer cell of a and b is           *)
(* [v, w]: its value and the tags of the statements that wrote it.         *)

Reverse_not(c) == c

Reverse(c) == [i \in 1..Len(c) |-> c[Len(c) + 1 - i]]

\* np.asarray of a scalar, a nested list or an array
asarray(w) == w

ndim(arr) == Len(arr.shape)

\* arr.ravel(): the flat buffer
ravel(arr) == arr.data

\* s / buf, elementwise, a new array
Divide(s, buf) == [i \in 1..Len(buf) |-> RDiv(s, buf[i])]

\* np.empty(n): n cells holding whatever the memory held
empty(n, garbage) == [i \in 1..n |-> [v |-> garbage, w |-> <<>>]]

any(idx) == \E i \in 1..Len(idx) : idx[i]

\* the number of TRUE cells of idx[1..i]
RECURSIVE Rank(_, _)
Rank(idx, i) == IF i = 0 THEN 0 ELSE Rank(idx, i - 1) + (IF idx[i] THEN 1 ELSE 0)

\* the positions of the TRUE cells of idx, in order
RECURSIVE Where(_, _)
Where(idx, i) ==
    IF i = 0 THEN <<>>
    ELSE IF idx[i] THEN Append(Where(idx, i - 1), i) ELSE Where(idx, i - 1)

\* x[:n] for the n TRUE cells of idx, in place of x[idx]
Take_prefix(x, idx) == [k \in 1..Rank(idx, Len(idx)) |-> x[k]]

\* x[idx]
Take(x, idx) == LET p == Where(idx, Len(idx)) IN [k \in 1..Len(p) |-> x[p[k]]]

\* a[idx] = vals, by the statement tagged tag
Put(a, idx, vals, tag) ==
    [i \in 1..Len(a) |->
        IF idx[i] THEN [v |-> vals[Rank(idx, i)], w |-> Append(a[i].w, tag)]
        ELSE a[i]]

\* a[idx] = vals in place of a[idx] += vals
PutAdd_replace(a, idx, vals, tag) ==
    [i \in 1..Len(a) |->
        IF idx[i] THEN [v |-> vals[Rank(idx, i)], w |-> Append(a[i].w, tag)]
        ELSE a[i]]

\* a[idx] += vals
PutAdd(a, idx, vals, tag) ==
    [i \in 1..Len(a) |->
        IF idx[i] THEN [v |-> VAdd(a[i].v, vals[Rank(idx, i)]), w |-> Append(a[i].w, tag)]
        ELSE a[i]]

\* c.reverse() in place of np.flipud(c)
flipud_inplace(c) == [out |-> Reverse(c), arg |-> Reverse(c)]

\* c passed to polyval as stored
flipud_noflip(c) == [out |-> c, arg |-> c]

\* np.flipud(c): the reversed view it returns, and c after the call
flipud(c) == [out |-> Reverse(c), arg |-> c]

\* np.polyval(p, xv) for one xv: p[1] is the coefficient of the highest degree
RECURSIVE Horner(_, _, _, _)
Horner(p, xv, i, y) ==
    IF i > Len(p) THEN y ELSE Horner(p, xv, i + 1, RAdd(RMul(y, xv), Lit(p[i])))

polyval(p, xp) == [k \in 1..Len(xp) |-> Num(Horner(p, xp[k], 1, Zero))]

----------------------------------------------------------------------------
(* extinction_ratio_ccm, src lines 105-165.                                *)

TenThousand == D(10000, 0)

\* (x <= 0.3) | (x >= 11.)
OutOfRange_strict(xi) == ~RGt(xi, D(3, 1)) \/ RGe(xi, D(11, 0))

\* line 109: (x < 0.3) | (x > 11.)
OutOfRange(xi) == RLt(xi, D(3, 1)) \/ RGt(xi, D(11, 0))
\* line 117: x < 1.1
InInfrared(xi) == RLt(xi, D(11, 1))
\* x < 3.3, the lower end forgotten
InOptical_nolower(xi) == RLt(xi, D(33, 1))

\* line 123: (x >= 1.1) & (x < 3.3)
InOptical(xi) == RGe(xi, D(11, 1)) /\ RLt(xi, D(33, 1))
\* (x > 3.3) & (x < 8.)
InMidUV_open(xi) == RGt(xi, D(33, 1)) /\ RLt(xi, D(8, 0))

\* line 141: (x >= 3.3) & (x < 8.)
InMidUV(xi) == RGe(xi, D(33, 1)) /\ RLt(xi, D(8, 0))
\* line 147: (x > 5.9) & (x < 8.)
InCorrection(xi) == RGt(xi, D(59, 1)) /\ RLt(xi, D(8, 0))
\* line 154: x >= 8.
InFarUV(xi) == RGe(xi, D(8, 0))

Sq(u) == RMul(u, u)
Cube(u) == RMul(RMul(u, u), u)

\* lines 119-120
IrA(xi) == VScale(Pow161(xi), D(574, 3))
IrB(xi) == VScale(Pow161(xi), D(-527, 3))

\* lines 144-145
MidUvA(xp) ==
    RSub(RSub(D(1752, 3), RMul(D(316, 3), xp)),
         RDiv(D(104, 3), RAdd(Sq(RSub(xp, D(467, 2))), D(341, 3))))
MidUvB(xp) ==
    RAdd(RAdd(D(-3090, 3), RMul(D(1825, 3), xp)),
         RDiv(D(1206, 3), RAdd(Sq(RSub(xp, D(467, 2))), D(263, 3))))

\* lines 150-151
CorrA(xp) == RSub(RMul(D(-4473, 5), Sq(xp)), RMul(D(9779, 6), Cube(xp)))
CorrB(xp) == RAdd(RMul(D(2130, 4), Sq(xp)), RMul(D(1207, 4), Cube(xp)))

\* lines 116-120: Infrared
Infrared(x, ab) ==
    LET idx == [i \in 1..Len(x) |-> InInfrared(x[i])]
        xs  == Take(x, idx)
    IN  IF any(idx)
        THEN [a |-> Put(ab.a, idx, [k \in 1..Len(xs) |-> IrA(xs[k])], "ir"),
              b |-> Put(ab.b, idx, [k \in 1..Len(xs) |-> IrB(xs[k])], "ir")]
        ELSE ab

\* lines 122-138: Optical/NIR.  T holds the four module-level tables; the
\* step gives the buffers, the tables after it, and whether it raised.
Optical(x, ab, oc, T) ==
    LET idx == [i \in 1..Len(x) |-> InOptical(x[i])]
        xs  == Take(x, idx)
        xp  == [k \in 1..Len(xs) |-> RSub(xs[k], D(182, 2))]
        c1  == IF oc = "odonnell" THEN T.c1_odonnell ELSE T.c1_ccm
        c2  == IF oc = "odonnell" THEN T.c2_odonnell ELSE T.c2_ccm
        f1  == flipud(c1)
        f2  == flipud(c2)
    IN  IF ~any(idx) THEN [raised |-> FALSE, a |-> ab.a, b |-> ab.b, T |-> T]
        ELSE IF oc \notin {"odonnell", "ccm"}
        THEN [raised |-> TRUE, a |-> ab.a, b |-> ab.b, T |-> T]
        ELSE [raised |-> FALSE,
              a |-> Put(ab.a, idx, polyval(f1.out, xp), "optical"),
              b |-> Put(ab.b, idx, polyval(f2.out, xp), "optical"),
              T |-> IF oc = "odonnell"
                    THEN [T EXCEPT !.c1_odonnell = f1.arg, !.c2_odonnell = f2.arg]
                    ELSE [T EXCEPT !.c1_ccm = f1.arg, !.c2_ccm = f2.arg]]

\* lines 140-145: Mid-UV
MidUV(x, ab) ==
    LET idx == [i \in 1..Len(x) |-> InMidUV(x[i])]
        xp  == Take(x, idx)
    IN  IF any(idx)
        THEN [a |-> Put(ab.a, idx, [k \in 1..Len(xp) |-> Num(MidUvA(xp[k]))], "miduv"),
              b |-> Put(ab.b, idx, [k \in 1..Len(xp) |-> Num(MidUvB(xp[k]))], "miduv")]
        ELSE ab

\* lines 147-151
Correction(x, ab) ==
    LET idx == [i \in 1..Len(x) |-> InCorrection(x[i])]
        xs  == Take(x, idx)
        xp  == [k \in 1..Len(xs) |-> RSub(xs[k], D(59, 1))]
    IN  IF any(idx)
        THEN [a |-> PutAdd(ab.a, idx, [k \in 1..Len(xp) |-> Num(CorrA(xp[k]))], "corr"),
              b |-> PutAdd(ab.b, idx, [k \in 1..Len(xp) |-> Num(CorrB(xp[k]))], "corr")]
        ELSE ab

\* lines 153-160: Far-UV
FarUV(x, ab) ==
    LET idx == [i \in 1..Len(x) |-> InFarUV(x[i])]
        xs  == Take(x, idx)
        xp  == [k \in 1..Len(xs) |-> RSub(xs[k], D(8, 0))]
    IN  IF any(idx)
        THEN [a |-> Put(ab.a, idx, polyval(flipud(fuv_c1).out, xp), "faruv"),
              b |-> Put(ab.b, idx, polyval(flipud(fuv_c2).out, xp), "faruv")]
        ELSE ab

\* line 162: a * r_v + b
Combine(a, rv, b) == [i \in 1..Len(a) |-> VAdd(VScale(a[i].v, rv), b[i].v)]

\* lines 163-165
Return(in_ndim, extinction_ratio) ==
    IF in_ndim = 0 THEN [shape |-> <<>>, data |-> <<extinction_ratio[1]>>]
    ELSE [shape |-> <<Len(extinction_ratio)>>, data |-> extinction_ratio]

None == [shape |-> <<-1>>, data |-> <<>>]
NoLocals == [x |-> <<>>, a |-> <<>>, b |-> <<>>]

Raise(error, w, T) ==
    [outcome |-> error, result |-> None, locals |-> NoLocals, wavelength |-> w, T |-> T]

\* lines 140-165, with the buffers ab and the tables T the optical step left
Finish(w, in_ndim, x, rv, T, ab) ==
    [outcome |-> "returned",
     result |-> Return(in_ndim, Combine(ab.a, rv, ab.b)),
     locals |-> [x |-> x, a |-> ab.a, b |-> ab.b],
     wavelength |-> w, T |-> T]

\* lines 131-165, with what the optical step gave
AfterOptical(w, in_ndim, x, rv, opt) ==
    IF opt.raised THEN Raise("ValueError_optical_coeffs", w, opt.T)
    ELSE Finish(w, in_ndim, x, rv, opt.T,
                FarUV(x, Correction(x, MidUV(x, [a |-> opt.a, b |-> opt.b]))))

\* lines 109-165
Body(w, in_ndim, x, rv, oc, T, garbage) ==
    IF any([i \in 1..Len(x) |-> OutOfRange(x[i])]) THEN Raise("ValueError_range", w, T)
    ELSE AfterOptical(w, in_ndim, x, rv,
            Optical(x, Infrared(x, [a |-> empty(Len(x), garbage),
                                    b |-> empty(Len(x), garbage)]), oc, T))

\* The call on the argument w (an array), rv, oc, with the module tables T and
\* the memory np.empty hands out holding garbage: what it returns or raises,
\* its locals at the return, and the argument and the tables after it.
extinction_ratio_ccm(w, rv, oc, T, garbage) ==
    Body(asarray(w), ndim(asarray(w)), Divide(TenThousand, ravel(asarray(w))),
         rv, oc, T, garbage)

----------------------------------------------------------------------------
(* The callers.  Wavelengths are drawn from a grid that holds each band's  *)
(* ends; X(n, e) is the wavelength whose x is exactly n * 10^-e.           *)

MaxLen == 2

X(n, e) == RDiv(TenThousand, D(n, e))

W_33333_3 == D(333333, 1)
W_909_1 == D(9091, 1)

\* the ends of the valid range, and just outside it
GridRange == { X(29, 2), X(3, 1), W_33333_3, W_909_1, X(11, 0), X(1101, 2) }
\* the ends of the bands, and the correction's
GridBands == { X(3, 1), X(11, 1), X(33, 1), X(59, 1), X(7, 0), X(8, 0) }
\* the bands that evaluate a table, and one that does not
GridPoly == { X(3, 1), X(11, 1), X(182, 2), X(282, 2), X(8, 0), W_909_1 }

RVs == { D(31, 1), D(2, 0) }
Coeffs == { "odonnell", "ccm", "bogus" }
Garbage == { Num(Zero), Num(D(-7, 0)) }

VARIABLES wavelength, r_v, optical_coeffs,
          c1_ccm, c2_ccm, c1_odonnell, c2_odonnell,
          outcome, result, locals

args == <<wavelength, r_v, optical_coeffs>>
tables == <<c1_ccm, c2_ccm, c1_odonnell, c2_odonnell>>
vars == <<wavelength, r_v, optical_coeffs, c1_ccm, c2_ccm, c1_odonnell, c2_odonnell,
          outcome, result, locals>>

Tables ==
    [c1_ccm |-> c1_ccm, c2_ccm |-> c2_ccm,
     c1_odonnell |-> c1_odonnell, c2_odonnell |-> c2_odonnell]

\* lines 8-16: the tables as the module defines them, the defaults of r_v and
\* optical_coeffs, and no call made yet
Init ==
    /\ wavelength = [shape |-> <<0>>, data |-> <<>>]
    /\ r_v = D(31, 1)
    /\ optical_coeffs = "odonnell"
    /\ c1_ccm = Init_c1_ccm
    /\ c2_ccm = Init_c2_ccm
    /\ c1_odonnell = Init_c1_odonnell
    /\ c2_odonnell = Init_c2_odonnell
    /\ outcome = "none"
    /\ result = None
    /\ locals = NoLocals

NoCall ==
    /\ outcome' = "none"
    /\ result' = None
    /\ locals' = NoLocals
    /\ UNCHANGED tables

\* the caller passes a float
Scalar(Grid) ==
    /\ \E w \in Grid : wavelength' = [shape |-> <<>>, data |-> <<w>>]
    /\ UNCHANGED <<r_v, optical_coeffs>>
    /\ NoCall

\* the caller starts a new, empty list
EmptyList ==
    /\ wavelength' = [shape |-> <<0>>, data |-> <<>>]
    /\ UNCHANGED <<r_v, optical_coeffs>>
    /\ NoCall

\* the caller appends a wavelength to its list
Append1(Grid) ==
    /\ ndim(wavelength) = 1
    /\ Len(wavelength.data) < MaxLen
    /\ \E w \in Grid :
        wavelength' = [shape |-> <<Len(wavelength.data) + 1>>,
                       data |-> Append(wavelength.data, w)]
    /\ UNCHANGED <<r_v, optical_coeffs>>
    /\ NoCall

\* the caller nests its list of 2 * c values as 2 rows of c values
TwoRows ==
    /\ ndim(wavelength) = 1
    /\ Len(wavelength.data) > 0
    /\ Len(wavelength.data) % 2 = 0
    /\ wavelength' = [wavelength EXCEPT !.shape = <<2, Len(wavelength.data) \div 2>>]
    /\ UNCHANGED <<r_v, optical_coeffs>>
    /\ NoCall

SetRv ==
    /\ \E rv \in RVs : r_v' = rv
    /\ UNCHANGED <<wavelength, optical_coeffs>>
    /\ NoCall

SetCoeffs ==
    /\ \E oc \in Coeffs : optical_coeffs' = oc
    /\ UNCHANGED <<wavelength, r_v>>
    /\ NoCall

\* extinction_ratio_ccm(wavelength, r_v, optical_coeffs) gives out
Call(out) ==
    /\ outcome' = out.outcome
    /\ result' = out.result
    /\ locals' = out.locals
    /\ wavelength' = out.wavelength
    /\ c1_ccm' = out.T.c1_ccm
    /\ c2_ccm' = out.T.c2_ccm
    /\ c1_odonnell' = out.T.c1_odonnell
    /\ c2_odonnell' = out.T.c2_odonnell
    /\ UNCHANGED <<r_v, optical_coeffs>>

\* a call, whatever the memory np.empty hands out holds
Invoke ==
    \E garbage \in Garbage :
        Call(extinction_ratio_ccm(wavelength, r_v, optical_coeffs, Tables, garbage))

Next(Grid) ==
    Scalar(Grid) \/ EmptyList \/ Append1(Grid) \/ TwoRows \/ SetRv \/ SetCoeffs \/ Invoke

NextRange == Next(GridRange)
NextBands == Next(GridBands)
NextPoly == Next(GridPoly)

SpecRange == Init /\ [][NextRange]_vars
SpecBands == Init /\ [][NextBands]_vars
SpecPoly == Init /\ [][NextPoly]_vars

----------------------------------------------------------------------------
(* The claims.                                                             *)

Returned == outcome = "returned"
Elems == 1..Len(wavelength.data)
\* x of the i-th wavelength of the argument
XOf(i) == RDiv(TenThousand, wavelength.data[i])
InOpticalBand(xi) == RGe(xi, D(11, 1)) /\ RLt(xi, D(33, 1))
Recognized == optical_coeffs \in {"odonnell", "ccm"}
AsScalar(w) == [shape |-> <<>>, data |-> <<w>>]
InitTables == <<Init_c1_ccm, Init_c2_ccm, Init_c1_odonnell, Init_c2_odonnell>>
Tags(cell) == {cell.w[k] : k \in 1..Len(cell.w)}

\* C1: the call raises the domain error exactly when some element has x < 0.3
\* or x > 11.0, whatever the other elements, r_v and optical_coeffs are, and
\* then returns nothing; x = 0.3, x = 11.0 and the wavelengths 909.1 and
\* 33333.3 are accepted, x = 0.29 and x = 11.01 are rejected.
C1_DomainError ==
    outcome # "none" =>
        /\ (outcome = "ValueError_range")
            <=> (\E i \in Elems : RLt(XOf(i), D(3, 1)) \/ RGt(XOf(i), D(11, 0)))
        /\ outcome = "ValueError_range" => result = None /\ locals = NoLocals
        /\ (\A i \in Elems : wavelength.data[i] \in {X(3, 1), X(11, 0), W_909_1, W_33333_3})
            => outcome # "ValueError_range"
        /\ (\E i \in Elems : wavelength.data[i] \in {X(29, 2), X(1101, 2)})
            => outcome = "ValueError_range"

C1_Witness ==
    /\ outcome = "ValueError_range"
    /\ wavelength.data = <<W_909_1, X(1101, 2)>>
    /\ optical_coeffs = "bogus"

\* C2: with every wavelength in range, an optical_coeffs other than 'ccm' and
\* 'odonnell' raises the configuration error and returns nothing, also when no
\* element lies in the optical band and when the sequence is empty.
C2_ConfigError ==
    (/\ outcome # "none"
     /\ \A i \in Elems : ~OutOfRange(XOf(i))
     /\ ~Recognized)
    => outcome = "ValueError_optical_coeffs" /\ result = None

\* C3: a scalar gives a scalar; a sequence of N in-range wavelengths gives N
\* values in input order, the i-th equal to what the scalar call on the i-th
\* wavelength gives with the same r_v and optical_coeffs.
C3_Elementwise ==
    Returned =>
        /\ ndim(wavelength) = 0 => result.shape = <<>> /\ Len(result.data) = 1
        /\ ndim(wavelength) = 1 =>
            /\ result.shape = <<Len(wavelength.data)>>
            /\ Len(result.data) = Len(wavelength.data)
            /\ \A i \in Elems : \A g \in Garbage :
                VEq(result.data[i],
                    extinction_ratio_ccm(AsScalar(wavelength.data[i]), r_v,
                                         optical_coeffs, Tables, g).result.data[1])

C3_Witness ==
    /\ Returned
    /\ wavelength = [shape |-> <<2>>, data |-> <<X(3, 1), X(11, 1)>>]

\* C4: the result has the shape of the argument, also for an argument of
\* more than one dimension.
C4_SameShape == Returned => result.shape = wavelength.shape

\* the values of the last call and of the call out agree outside [1.1, 3.3)
AgreesOutsideOptical(out) ==
    /\ out.outcome = "returned"
    /\ \A i \in Elems :
        ~InOpticalBand(XOf(i)) => VEq(result.data[i], out.result.data[i])

\* C5: for the same wavelengths and r_v, 'ccm' and 'odonnell' give identical
\* values at every element whose x is outside [1.1, 3.3).
C5_SelectorOnlyOptical ==
    (Returned /\ Recognized) =>
        \A g \in Garbage :
            AgreesOutsideOptical(
                extinction_ratio_ccm(wavelength, r_v,
                    IF optical_coeffs = "ccm" THEN "odonnell" ELSE "ccm", Tables, g))

C5_Witness ==
    /\ Returned
    /\ optical_coeffs = "ccm"
    /\ wavelength.data = <<X(11, 1), X(7, 0)>>
    /\ ~VEq(result.data[1],
            extinction_ratio_ccm(wavelength, r_v, "odonnell", Tables,
                                 Num(Zero)).result.data[1])

\* C6: at x = 1.82 exactly the optical polynomials give a = 1 and b = 0 for
\* both tables, and the result is r_v.
C6_VBand ==
    (Returned /\ Recognized) =>
        \A i \in Elems :
            REq(locals.x[i], D(182, 2)) =>
                /\ VEq(locals.a[i].v, Num(One))
                /\ VEq(locals.b[i].v, Num(Zero))
                /\ VEq(result.data[i], Num(r_v))

C6_Witness ==
    /\ Returned
    /\ optical_coeffs = "ccm"
    /\ r_v = D(2, 0)
    /\ wavelength = AsScalar(X(182, 2))
    /\ VEq(result.data[1], Num(D(2, 0)))

\* C7: no step changes the module tables, a call leaves its wavelength
\* argument as it was, and a call repeated with the same arguments ends the
\* same way with the same result.
C7_NoSideEffects ==
    [][/\ tables' = InitTables
       /\ outcome' # "none" => wavelength' = wavelength
       /\ (outcome # "none" /\ outcome' # "none")
            => outcome' = outcome /\ result' = result]_vars

C7_Witness ==
    /\ Returned
    /\ optical_coeffs = "odonnell"
    /\ \E i \in Elems : InOpticalBand(XOf(i))
    /\ tables = InitTables

IsBase(t) == t \in {"ir", "optical", "miduv", "faruv"}
RegionOf(xi) ==
    IF RLt(xi, D(11, 1)) THEN "ir"
    ELSE IF RLt(xi, D(33, 1)) THEN "optical"
    ELSE IF RLt(xi, D(8, 0)) THEN "miduv"
    ELSE "faruv"

\* C8: every element of a and b that reaches a * r_v + b has x in [0.3, 11.0]
\* and was assigned by exactly one of the four base regions, the one its x
\* lies in.
C8_OneBaseRegion ==
    Returned =>
        \A i \in Elems :
            /\ RGe(locals.x[i], D(3, 1)) /\ ~RGt(locals.x[i], D(11, 0))
            /\ SelectSeq(locals.a[i].w, IsBase) = <<RegionOf(locals.x[i])>>
            /\ SelectSeq(locals.b[i].w, IsBase) = <<RegionOf(locals.x[i])>>

C8_Witness ==
    /\ Returned
    /\ wavelength.data = <<X(33, 1), X(8, 0)>>

ClaimCorrA(xp) == RSub(RMul(D(-4473, 5), Sq(xp)), RMul(D(9779, 6), Cube(xp)))
ClaimCorrB(xp) == RAdd(RMul(D(2130, 4), Sq(xp)), RMul(D(1207, 4), Cube(xp)))

\* C9: the correction is applied exactly to the elements with 5.9 < x < 8,
\* after the mid-UV assignment and added to its value; an element of the
\* mid-UV band with x <= 5.9 keeps the mid-UV value.
C9_Correction ==
    Returned =>
        \A i \in Elems :
            LET xi == locals.x[i]
                within == RGt(xi, D(59, 1)) /\ RLt(xi, D(8, 0))
            IN  /\ ("corr" \in Tags(locals.a[i])) <=> within
                /\ ("corr" \in Tags(locals.b[i])) <=> within
                /\ within =>
                    /\ locals.a[i].w = <<"miduv", "corr">>
                    /\ locals.b[i].w = <<"miduv", "corr">>
                    /\ VEq(locals.a[i].v,
                           Num(RAdd(MidUvA(xi), ClaimCorrA(RSub(xi, D(59, 1))))))
                    /\ VEq(locals.b[i].v,
                           Num(RAdd(MidUvB(xi), ClaimCorrB(RSub(xi, D(59, 1))))))
                /\ (~within /\ RGe(xi, D(33, 1)) /\ RLt(xi, D(8, 0))) =>
                    /\ VEq(locals.a[i].v, Num(MidUvA(xi)))
                    /\ VEq(locals.b[i].v, Num(MidUvB(xi)))

C9_Witness ==
    /\ Returned
    /\ wavelength.data = <<X(59, 1), X(7, 0)>>
    /\ "corr" \in Tags(locals.a[2])

RECURSIVE RPow(_, _)
RPow(u, k) == IF k = 0 THEN One ELSE RMul(RPow(u, k - 1), u)

\* c[1] + c[2] * xp + ... + c[i] * xp^(i-1)
RECURSIVE DirectSum(_, _, _)
DirectSum(c, xp, i) ==
    IF i = 0 THEN Zero
    ELSE RAdd(DirectSum(c, xp, i - 1), RMul(Lit(c[i]), RPow(xp, i - 1)))

\* C10: in the optical band and the far-UV band a and b are the sums over i of
\* c[i] * xp^i of the tables as stored, index 0 the constant term.
C10_LowestDegreeFirst ==
    (Returned /\ Recognized) =>
        \A i \in Elems :
            LET xi == locals.x[i]
                c1 == IF optical_coeffs = "odonnell" THEN c1_odonnell ELSE c1_ccm
                c2 == IF optical_coeffs = "odonnell" THEN c2_odonnell ELSE c2_ccm
            IN  /\ InOpticalBand(xi) =>
                    /\ VEq(locals.a[i].v, Num(DirectSum(c1, RSub(xi, D(182, 2)), Len(c1))))
                    /\ VEq(locals.b[i].v, Num(DirectSum(c2, RSub(xi, D(182, 2)), Len(c2))))
                /\ RGe(xi, D(8, 0)) =>
                    /\ VEq(locals.a[i].v, Num(DirectSum(fuv_c1, RSub(xi, D(8, 0)), Len(fuv_c1))))
                    /\ VEq(locals.b[i].v, Num(DirectSum(fuv_c2, RSub(xi, D(8, 0)), Len(fuv_c2))))

C10_Witness ==
    /\ Returned
    /\ optical_coeffs = "ccm"
    /\ wavelength.data = <<X(11, 1), W_909_1>>
====
